---- MODULE Spec2Model ----
(***************************************************************************)
(* INTEARnear/dex: a sandboxed DEX engine (src/src/lib.rs) that runs a     *)
(* guest wasm module through a NEAR-like host-function surface, and the    *)
(* example guest (src/example-dex/src/lib.rs), a constant-product swap.    *)
(*                                                                         *)
(* Two specifications share the variables:                                 *)
(*   SpecPrice  the guest's pricing function SimpleSwap::swap applied to   *)
(*              bounded pools and requests;                                *)
(*   Spec       the engine: deploy_code, and swap as load / link /         *)
(*              instantiate / guest host calls / response extraction.      *)
(***************************************************************************)
EXTENDS Integers, Sequences, FiniteSets, TLC

(***************************************************************************)
(* Word widths.  u128 and U256 (uint::construct_uint!, 4 x 64 bits) are    *)
(* modelled with a reduced word: U128Bits bits for u128 and twice that for *)
(* U256, so that every value stays inside TLC's integers.                  *)
(***************************************************************************)
U128Bits == 14

U128_MAX == 2 ^ U128Bits - 1

U256_MAX == 2 ^ (2 * U128Bits) - 1

\* Balances and amounts the pricing specification enumerates: a small dense
\* range, the values of the end-to-end scenario, and the largest u128.
MaxBalance == 3

MaxAmount == 3

Balances == (0 .. MaxBalance) \cup {10000, U128_MAX}

Amounts == (0 .. MaxAmount) \cup {909, 1000, U128_MAX}

(***************************************************************************)
(* Byte strings are sequences of chunks; a Rust String is the one-chunk    *)
(* byte string of its text.                                                *)
(***************************************************************************)
Str(s) == <<s>>

(***************************************************************************)
(* tear-sdk types.                                                         *)
(***************************************************************************)
\* AssetId: Near | Nep141(account) | ...
AssetIds == {"Near", "Nep141(wrap.near)", "Nep141(usdt.near)"}

\* PoolId = String.  "1" is the id the engine's synthesized request carries.
PoolIds == {"1", "2"}

SwapRequestAmountKinds == {"ExactIn", "ExactOut"}

\* SwapRequest { pool_id, asset_in, asset_out, amount }
SwapRequest(pool_id, asset_in, asset_out, kind, amount) ==
    [pool_id |-> pool_id, asset_in |-> asset_in, asset_out |-> asset_out,
     amount |-> [kind |-> kind, value |-> amount]]

\* SwapResponse::Ok { amount_in, amount_out }
ResponseOk(amount_in, amount_out) ==
    [kind |-> "Ok", amount_in |-> amount_in, amount_out |-> amount_out, message |-> <<>>]

\* SwapResponse::Error { message }
ResponseError(message) ==
    [kind |-> "Error", amount_in |-> 0, amount_out |-> 0, message |-> message]

\* A Rust panic inside the guest (require!, U256 checked arithmetic): the
\* function does not return a SwapResponse.
GuestPanic(message) ==
    [kind |-> "Panic", amount_in |-> 0, amount_out |-> 0, message |-> message]

\* SimplePoolAsset { asset_id, balance } and SimplePool { assets: (_, _) }
SimplePoolAsset(asset_id, balance) == [asset_id |-> asset_id, balance |-> balance]

SimplePool(a0, a1) == <<a0, a1>>

(***************************************************************************)
(* U256 arithmetic of the uint crate: every operator panics on overflow    *)
(* and on division by zero; as_u128 panics when the value needs more than  *)
(* 128 bits.  A panic is carried as a negative code through the rest of    *)
(* the expression.                                                         *)
(***************************************************************************)
PanicOverflow == 0 - 1

PanicDivZero == 0 - 2

PanicCast == 0 - 3

PanicText(code) ==
    CASE code = PanicOverflow -> Str("arithmetic operation overflow")
      [] code = PanicDivZero -> Str("division by zero")
      [] OTHER -> Str("Integer overflow when casting to u128")

FirstPanic(a, b) == IF a < 0 THEN a ELSE b

U256Mul(a, b) ==
    IF a < 0 \/ b < 0 THEN FirstPanic(a, b)
    ELSE IF a * b > U256_MAX THEN PanicOverflow ELSE a * b

U256Add(a, b) ==
    IF a < 0 \/ b < 0 THEN FirstPanic(a, b)
    ELSE IF a + b > U256_MAX THEN PanicOverflow ELSE a + b

\* A subtraction that wraps modulo 2^256 instead of panicking.
U256SubWrapping(a, b) ==
    IF a < 0 \/ b < 0 THEN FirstPanic(a, b)
    ELSE IF b > a THEN U256_MAX + 1 - (b - a) ELSE a - b

U256Sub(a, b) ==
    IF a < 0 \/ b < 0 THEN FirstPanic(a, b)
    ELSE IF b > a THEN PanicOverflow ELSE a - b

U256Div(a, b) ==
    IF a < 0 \/ b < 0 THEN FirstPanic(a, b)
    ELSE IF b = 0 THEN PanicDivZero ELSE a \div b

\* A cast that keeps the low 128 bits instead of panicking.
low_u128(a) ==
    IF a < 0 THEN a ELSE a % (U128_MAX + 1)

as_u128(a) ==
    IF a < 0 THEN a
    ELSE IF a > U128_MAX THEN PanicCast ELSE a

(***************************************************************************)
(* SimpleSwap::swap, the example guest's pricing function.                 *)
(***************************************************************************)
\* if first_in { assets.0.balance } else { assets.1.balance }
InBalance(pool, first_in) == IF first_in THEN pool[1].balance ELSE pool[2].balance

\* if first_in { assets.1.balance } else { assets.0.balance }
OutBalance(pool, first_in) == IF first_in THEN pool[2].balance ELSE pool[1].balance

\* An ExactIn quotient rounded up instead of down.
ExactInAmountOutCeil(in_balance, out_balance, amount_in) ==
    as_u128(U256Div(U256Add(U256Mul(amount_in, out_balance),
                            U256Add(in_balance, amount_in) - 1),
                    U256Add(in_balance, amount_in)))

\* (U256(amount_in) * out_balance / (in_balance + U256(amount_in))).as_u128()
ExactInAmountOut(in_balance, out_balance, amount_in) ==
    as_u128(U256Div(U256Mul(amount_in, out_balance), U256Add(in_balance, amount_in)))

\* An ExactOut computation that adds one only when the division is inexact.
ExactOutAmountInCeil(in_balance, out_balance, amount_out) ==
    as_u128(U256Div(U256Add(U256Mul(in_balance, amount_out),
                            U256Sub(out_balance, amount_out) - 1),
                    U256Sub(out_balance, amount_out)))

\* An ExactOut computation that leaves out the final "+ U256::one()".
ExactOutAmountInNoPlusOne(in_balance, out_balance, amount_out) ==
    as_u128(U256Div(U256Mul(in_balance, amount_out), U256Sub(out_balance, amount_out)))

\* ((in_balance * U256(amount_out)) / (out_balance - U256(amount_out))
\*   + U256::one()).as_u128()
ExactOutAmountIn(in_balance, out_balance, amount_out) ==
    as_u128(U256Add(U256Div(U256Mul(in_balance, amount_out),
                            U256Sub(out_balance, amount_out)), 1))

\* The message of the placeholder answer for pool id "1".
StubMessage ==
    Str("Everything ok, this message comes from wasm, but the dex itself is not implemented")

\* The match on request.amount, once pool and assets are accepted.
PriceAccepted(pool, request) ==
    LET first_in == pool[1].asset_id = request.asset_in
        in_balance == InBalance(pool, first_in)
        out_balance == OutBalance(pool, first_in)
        amount == request.amount.value
    IN  IF amount <= 0 THEN GuestPanic(Str("Amount must be greater than 0"))
        ELSE IF request.amount.kind = "ExactIn"
        THEN LET amount_out == ExactInAmountOut(in_balance, out_balance, amount)
             IN  IF amount_out < 0 THEN GuestPanic(PanicText(amount_out))
                 ELSE ResponseOk(amount, amount_out)
        ELSE LET amount_in == ExactOutAmountIn(in_balance, out_balance, amount)
             IN  IF amount_in < 0 THEN GuestPanic(PanicText(amount_in))
                 ELSE ResponseOk(amount_in, amount)

\* SimpleSwap::swap(&mut self, request) over the pools map `ps`.
SimpleSwap_swap(ps, request) ==
    IF request.pool_id = "1" THEN ResponseError(StubMessage)
    ELSE IF request.pool_id \notin DOMAIN ps THEN ResponseError(Str("Pool not found"))
    ELSE LET pool == ps[request.pool_id]
         IN  IF ~(pool[1].asset_id = request.asset_in
                  \/ pool[2].asset_id = request.asset_in)
             THEN GuestPanic(Str("Invalid asset in"))
             ELSE IF ~(pool[1].asset_id = request.asset_out
                       \/ pool[2].asset_id = request.asset_out)
             THEN GuestPanic(Str("Invalid asset out"))
             ELSE PriceAccepted(pool, request)

(***************************************************************************)
(* State.                                                                  *)
(*   pools, priced, preq, presp      the guest contract and its last call  *)
(*   codes, balances, storage        SandboxedDexEngine (durable)          *)
(*   request .. predecessor_id       RunnerData of the current invocation  *)
(*   pc, running, gpc                where the swap call is, or how the    *)
(*                                   last one ended ("idle": none yet,     *)
(*                                   "rejected": before the guest ran,     *)
(*                                   "guest": the export is running,       *)
(*                                   "returned", "trapped": how the export *)
(*                                   ended, "aborted": a host function     *)
(*                                   panicked)                             *)
(*   last_call, ret, copied          the guest's last host call, what it   *)
(*                                   returned, what it copied to the guest *)
(*   outcome                         how the last swap call ended          *)
(***************************************************************************)
VARIABLES pools, priced, preq, presp,
          codes, balances, storage,
          request, response, registers, persistent_storage, predecessor_id,
          pc, running, gpc, ret, copied, last_call, outcome

pricevars == <<pools, priced, preq, presp>>

enginevars == <<codes, balances, storage>>

runnervars == <<request, response, registers, persistent_storage, predecessor_id>>

callvars == <<pc, running, gpc, ret, copied, last_call, outcome>>

vars == <<pricevars, enginevars, runnervars, callvars>>

\* A map with no entry (LookupMap::new, HashMap::new).
EmptyMap == [k \in {} |-> k]

(***************************************************************************)
(* The engine's world: accounts, dex ids, code blobs, the host catalog.    *)
(***************************************************************************)
Accounts == {"alice.near", "bob.near"}

DexNames == {"example"}

\* A key that forgets who deployed.
DexIdSharedDeployer(deployer, id) == [deployer |-> "alice.near", id |-> id]

\* DexId { deployer, id }
DexId(deployer, id) == [deployer |-> deployer, id |-> id]

DexIds == {DexId(a, n) : a \in Accounts, n \in DexNames}

\* Attached deposits, in yoctoNEAR.
MaxDeposit == 2

Deposits == 0 .. MaxDeposit

\* The host functions registered with a body (linker.func_wrap calls).
Implemented ==
    {"register_len", "read_register", "write_register", "input",
     "attached_deposit", "predecessor_account_id", "value_return", "panic",
     "panic_utf8", "storage_write", "storage_read", "storage_remove",
     "storage_has_key"}

\* Entries of the declare_unimplemented_host_functions! catalog (one of each
\* group stands for the group).
Unimplemented ==
    {"current_account_id", "prepaid_gas", "sha256", "log_utf8",
     "promise_create", "storage_iter_next", "validator_stake",
     "bls12381_pairing_check"}

\* Every (env, name) pair the linker can resolve.
Catalog == Implemented \cup Unimplemented

\* A code blob.  wasm: Module::new accepts it; imports: the env functions it
\* imports; exports: its exported functions; start: whether its start
\* routine traps; program: what its swap export does ("example_dex": the
\* compiled example guest, "free": any sequence of imported host calls).
Blob(wasm, imports, exports, start, program) ==
    [wasm |-> wasm, imports |-> imports, exports |-> exports, start |-> start,
     program |-> program]

NotWasm == Blob(FALSE, {}, {}, "none", "free")

\* What the near-sdk build of example-dex imports and exports.
ExampleDexImports ==
    {"attached_deposit", "input", "register_len", "read_register",
     "storage_read", "storage_write", "value_return", "panic_utf8"}

ExampleDex == Blob(TRUE, ExampleDexImports, {"swap", "memory"}, "none", "example_dex")

FreeGuest == Blob(TRUE, Implemented, {"swap", "memory"}, "none", "free")

FreeGuestFullAbi == Blob(TRUE, Catalog, {"swap", "memory"}, "none", "free")

NoSwapExport == Blob(TRUE, Implemented, {"memory"}, "none", "free")

UnknownImport ==
    Blob(TRUE, Implemented \cup {"not_in_catalog"}, {"swap", "memory"}, "none", "free")

StartTraps == Blob(TRUE, Implemented, {"swap", "memory"}, "traps", "free")

CodeBlobs ==
    {NotWasm, ExampleDex, FreeGuest, FreeGuestFullAbi, NoSwapExport, UnknownImport,
     StartTraps}

(***************************************************************************)
(* Machine words of the host build (the engine is itself a wasm32          *)
(* contract): u64 arguments and `as usize` casts, with reduced widths.     *)
(***************************************************************************)
U64Bits == 5

UsizeBits == 4

U64_MAX == 2 ^ U64Bits - 1

\* `x as usize`
AsUsize(x) == x % (2 ^ UsizeBits)

\* Size of the guest's linear memory, in chunks.
MemSize == 8

\* near-sdk's ATOMIC_OP_REGISTER (u64::MAX - 2)
AtomicOpRegister == U64_MAX - 2

(***************************************************************************)
(* How a swap call ends, and the response slot.                            *)
(***************************************************************************)
\* RunnerData.response = None
ResponseNone == [kind |-> "None", amount_in |-> 0, amount_out |-> 0, message |-> <<>>]

NoOutcome == [kind |-> "none", value |-> "", reason |-> "", detail |-> <<>>]

\* The call returned the U128 `value`.
Returned(value) == [kind |-> "value", value |-> value, reason |-> "", detail |-> <<>>]

\* The call panicked: `reason` is the fixed text, `detail` what it names.
Failed(reason, detail) ==
    [kind |-> "failed", value |-> "", reason |-> reason, detail |-> detail]

NoRequest == SwapRequest("", "", "", "", "")

NoCopy == [ptr |-> 0, bytes |-> <<>>]

(***************************************************************************)
(* The JSON envelopes (serde_json with near-sdk's U128 as a decimal        *)
(* string).  A document is a byte string; its chunks are the tag and the   *)
(* field values.                                                           *)
(***************************************************************************)
\* Decimal strings that parse as a U128.
U128Strings == {"0", "42", "1000", "1000000000000000000000000"}

\* json!({"request": request}).to_string().into_bytes()
InputJson(req) ==
    <<"request", req.pool_id, req.asset_in, req.asset_out, req.amount.kind,
      req.amount.value>>

\* The near-sdk wrapper's Input { request } read back from the input bytes.
ParseInput(bytes) == SwapRequest(bytes[2], bytes[3], bytes[4], bytes[5], bytes[6])

\* serde_json::to_vec(&SwapResponse)
ResponseJson(resp) ==
    IF resp.kind = "Ok"
    THEN <<"Ok", ToString(resp.amount_in), ToString(resp.amount_out)>>
    ELSE <<"Error">> \o resp.message

\* A chunk that is not valid UTF-8.
InvalidUtf8 == "\\xFF"

IsUtf8(bytes) == \A i \in 1 .. Len(bytes) : bytes[i] # InvalidUtf8

ParseError == [kind |-> "ParseError", amount_in |-> 0, amount_out |-> 0, message |-> <<>>]

\* serde_json::from_slice::<SwapResponse>(&buf)
ParseSwapResponse(bytes) ==
    IF Len(bytes) = 0 \/ ~IsUtf8(bytes) THEN ParseError
    ELSE IF bytes[1] = "Ok"
    THEN IF Len(bytes) = 3 /\ bytes[2] \in U128Strings /\ bytes[3] \in U128Strings
         THEN ResponseOk(bytes[2], bytes[3])
         ELSE ParseError
    ELSE IF bytes[1] = "Error" THEN ResponseError(Tail(bytes))
    ELSE ParseError

\* NearToken::default().as_yoctonear().to_le_bytes(): a u128 of value 0.
ZeroDepositBytes == <<"00", "00">>

\* AccountId::to_string().into_bytes()
AccountBytes(a) == Str(a)

(***************************************************************************)
(* A guest's call into the host: the function, its u64 arguments, and      *)
(* the guest memory it points at (`bytes` at ptr, `vbytes` at vptr).  The  *)
(* guest owns its memory, so the content is whatever it chose to put there.*)
(***************************************************************************)
Call(fn, register_id, len, ptr, bytes, vlen, vptr, vbytes) ==
    [fn |-> fn, register_id |-> register_id, len |-> len, ptr |-> ptr,
     bytes |-> bytes, vlen |-> vlen, vptr |-> vptr, vbytes |-> vbytes]

Call0(fn) == Call(fn, 0, 0, 0, <<>>, 0, 0, <<>>)

CallReg(fn, register_id) == Call(fn, register_id, 0, 0, <<>>, 0, 0, <<>>)

CallPtr(fn, register_id, ptr) == Call(fn, register_id, 0, ptr, <<>>, 0, 0, <<>>)

CallBuf(fn, register_id, len, ptr, bytes) ==
    Call(fn, register_id, len, ptr, bytes, 0, 0, <<>>)

\* No host call made yet in this invocation.
NoCall == Call0("")

\* memory.read(ptr as usize, &mut vec![0; len as usize]) succeeds
\* (memory.write(ptr as usize, buf) for a buffer of len bytes likewise).
MemOk(ptr, len) == AsUsize(ptr) + AsUsize(len) <= MemSize

(***************************************************************************)
(* Host functions (the closures given to linker.func_wrap).  A host        *)
(* function either returns to the guest or panics; a panic of the host     *)
(* aborts the whole swap call.                                             *)
(***************************************************************************)
Insert(m, k, v) == (k :> v) @@ m

Remove(m, k) == [x \in DOMAIN m \ {k} |-> m[x]]

HostReturns(resp, regs, stor, rv, cp) ==
    /\ pc' = "guest"
    /\ outcome' = outcome
    /\ response' = resp
    /\ registers' = regs
    /\ persistent_storage' = stor
    /\ ret' = rv
    /\ copied' = cp

HostPanics(reason, detail) ==
    /\ pc' = "aborted"
    /\ outcome' = Failed(reason, detail)
    /\ UNCHANGED <<response, registers, persistent_storage, ret, copied>>

\* caller.get_export("memory").and_then(|m| m.into_memory()) is Some
HasMemory == "memory" \in running.exports

register_len(c) ==
    HostReturns(response, registers, persistent_storage,
                IF c.register_id \in DOMAIN registers
                THEN Len(registers[c.register_id]) ELSE U64_MAX,
                copied)

read_register(c) ==
    IF ~HasMemory THEN HostPanics("Failed to get memory", <<>>)
    ELSE IF c.register_id \notin DOMAIN registers
    THEN HostPanics("Invalid register", <<>>)
    ELSE IF ~MemOk(c.ptr, Len(registers[c.register_id]))
    THEN HostPanics("Failed to write data to guest memory", <<>>)
    ELSE HostReturns(response, registers, persistent_storage, ret,
                     [ptr |-> AsUsize(c.ptr), bytes |-> registers[c.register_id]])

\* A write_register that keeps what the register already holds.
write_register_first_wins(c) ==
    IF ~HasMemory THEN HostPanics("Failed to get memory", <<>>)
    ELSE IF ~MemOk(c.ptr, c.len)
    THEN HostPanics("Failed to read data from guest memory", <<>>)
    ELSE HostReturns(response,
                     IF c.register_id \in DOMAIN registers THEN registers
                     ELSE Insert(registers, c.register_id, c.bytes),
                     persistent_storage, ret, copied)

write_register(c) ==
    IF ~HasMemory THEN HostPanics("Failed to get memory", <<>>)
    ELSE IF ~MemOk(c.ptr, c.len)
    THEN HostPanics("Failed to read data from guest memory", <<>>)
    ELSE HostReturns(response,
                     Insert(registers, c.register_id, c.bytes),
                     persistent_storage, ret, copied)

input(c) ==
    HostReturns(response,
                Insert(registers, c.register_id, InputJson(request)),
                persistent_storage, ret, copied)

attached_deposit(c) ==
    IF ~HasMemory THEN HostPanics("Failed to get memory", <<>>)
    ELSE IF ~MemOk(c.ptr, Len(ZeroDepositBytes))
    THEN HostPanics("Failed to write data to guest memory", <<>>)
    ELSE HostReturns(response, registers, persistent_storage, ret,
                     [ptr |-> AsUsize(c.ptr), bytes |-> ZeroDepositBytes])

predecessor_account_id(c) ==
    HostReturns(response,
                Insert(registers, c.register_id, AccountBytes(predecessor_id)),
                persistent_storage, ret, copied)

\* value_return that keeps the previous response when the payload does not
\* parse, instead of panicking.
value_return_lenient(c) ==
    IF ~HasMemory THEN HostPanics("Failed to get memory", <<>>)
    ELSE IF ~MemOk(c.ptr, c.len)
    THEN HostPanics("Failed to get return value", <<>>)
    ELSE HostReturns(IF ParseSwapResponse(c.bytes).kind = "ParseError"
                     THEN response ELSE ParseSwapResponse(c.bytes),
                     registers, persistent_storage, ret, copied)

value_return(c) ==
    IF ~HasMemory THEN HostPanics("Failed to get memory", <<>>)
    ELSE IF ~MemOk(c.ptr, c.len)
    THEN HostPanics("Failed to get return value", <<>>)
    ELSE IF ParseSwapResponse(c.bytes).kind = "ParseError"
    THEN HostPanics("Failed to parse return value as SwapResponse", <<>>)
    ELSE HostReturns(ParseSwapResponse(c.bytes), registers,
                     persistent_storage, ret, copied)

\* A panic that leaves a response already captured in place.
panic_keeps_response(c) ==
    HostReturns(IF response.kind = "None" THEN ResponseError(Str("panicked"))
                ELSE response,
                registers, persistent_storage, ret, copied)

panic(c) ==
    HostReturns(ResponseError(Str("panicked")), registers,
                persistent_storage, ret, copied)

panic_utf8(c) ==
    IF ~HasMemory THEN HostPanics("Failed to get memory", <<>>)
    ELSE IF ~MemOk(c.ptr, c.len)
    THEN HostPanics("Failed to read panic message", <<>>)
    ELSE IF ~IsUtf8(c.bytes)
    THEN HostPanics("Failed to parse panic message", <<>>)
    ELSE HostReturns(ResponseError(c.bytes), registers,
                     persistent_storage, ret, copied)

storage_write(c) ==
    IF ~HasMemory THEN HostPanics("Failed to get memory", <<>>)
    ELSE IF ~MemOk(c.ptr, c.len)
    THEN HostPanics("Failed to read key from guest memory", <<>>)
    ELSE IF ~MemOk(c.vptr, c.vlen)
    THEN HostPanics("Failed to read value from guest memory", <<>>)
    ELSE IF c.bytes \in DOMAIN persistent_storage
    THEN HostReturns(response,
                     Insert(registers, c.register_id, persistent_storage[c.bytes]),
                     Insert(persistent_storage, c.bytes, c.vbytes), 1, copied)
    ELSE HostReturns(response, registers,
                     Insert(persistent_storage, c.bytes, c.vbytes), 0, copied)

storage_read(c) ==
    IF ~HasMemory THEN HostPanics("Failed to get memory", <<>>)
    ELSE IF ~MemOk(c.ptr, c.len)
    THEN HostPanics("Failed to read key from guest memory", <<>>)
    ELSE IF c.bytes \in DOMAIN persistent_storage
    THEN HostReturns(response,
                     Insert(registers, c.register_id, persistent_storage[c.bytes]),
                     persistent_storage, 1, copied)
    ELSE HostReturns(response, registers, persistent_storage, 0, copied)

\* A storage_remove that reports the value and leaves the key in place.
storage_remove_keeps(c) ==
    IF ~HasMemory THEN HostPanics("Failed to get memory", <<>>)
    ELSE IF ~MemOk(c.ptr, c.len)
    THEN HostPanics("Failed to read key from guest memory", <<>>)
    ELSE IF c.bytes \in DOMAIN persistent_storage
    THEN HostReturns(response,
                     Insert(registers, c.register_id, persistent_storage[c.bytes]),
                     persistent_storage, 1, copied)
    ELSE HostReturns(response, registers, persistent_storage, 0, copied)

storage_remove(c) ==
    IF ~HasMemory THEN HostPanics("Failed to get memory", <<>>)
    ELSE IF ~MemOk(c.ptr, c.len)
    THEN HostPanics("Failed to read key from guest memory", <<>>)
    ELSE IF c.bytes \in DOMAIN persistent_storage
    THEN HostReturns(response,
                     Insert(registers, c.register_id, persistent_storage[c.bytes]),
                     Remove(persistent_storage, c.bytes), 1, copied)
    ELSE HostReturns(response, registers, persistent_storage, 0, copied)

storage_has_key(c) ==
    IF ~HasMemory THEN HostPanics("Failed to get memory", <<>>)
    ELSE IF ~MemOk(c.ptr, c.len)
    THEN HostPanics("Failed to read key from guest memory", <<>>)
    ELSE HostReturns(response, registers, persistent_storage,
                     IF c.bytes \in DOMAIN persistent_storage THEN 1 ELSE 0, copied)

\* An unimplemented catalog entry that returns to the guest without effect.
unimplemented_noop(c) ==
    HostReturns(response, registers, persistent_storage, ret, copied)

\* unimplemented!(concat!("Function ", stringify!($name), " is not implemented"))
unimplemented(c) ==
    HostPanics("not implemented: Function is not implemented", Str(c.fn))

(***************************************************************************)
(* Guests.                                                                 *)
(***************************************************************************)
\* Host calls one invocation may make before the model stops following it.
MaxCalls == 2

\* The near-sdk wrapper's storage key of the contract state.
StateKey == Str("STATE")

\* borsh of SimpleSwap { pools: LookupMap::new(StorageKey::Pools) }
StateBytes == Str("borsh(SimpleSwap)")

\* The compiled example guest: the near-sdk wrapper around SimpleSwap::swap.
\* It checks that no deposit is attached, reads the input, loads the
\* contract state, calls swap, returns the JSON of the response and stores
\* the state; a Rust panic goes to panic_utf8, which near-sys declares
\* diverging, so the guest traps (unreachable) should it come back.
ExampleDexCall ==
    CASE gpc = 0 -> CallPtr("attached_deposit", 0, 0)
      [] gpc = 1 -> CallReg("input", AtomicOpRegister)
      [] gpc = 2 -> CallReg("register_len", AtomicOpRegister)
      [] gpc = 3 -> CallPtr("read_register", AtomicOpRegister, 0)
      [] gpc = 4 -> CallBuf("storage_read", AtomicOpRegister, Len(StateKey), 0, StateKey)
      [] gpc = 5 ->
           LET result == SimpleSwap_swap(pools, ParseInput(copied.bytes))
           IN  IF result.kind = "Panic"
               THEN CallBuf("panic_utf8", 0, Len(result.message), 0, result.message)
               ELSE CallBuf("value_return", 0, Len(ResponseJson(result)), 0,
                            ResponseJson(result))
      [] gpc = 6 /\ last_call.fn = "panic_utf8" -> Call0("trap")
      [] gpc = 6 /\ last_call.fn # "panic_utf8" ->
           Call("storage_write", AtomicOpRegister, Len(StateKey), 0, StateKey,
                Len(StateBytes), Len(StateKey), StateBytes)
      [] OTHER -> Call0("return")

\* A pointer past 2^32 that `as usize` brings back to 0.
WrappedZero == 2 ^ UsizeBits

\* What a free guest may do next in the engine specification: end, or one
\* host call with in-bounds, wrapped and out-of-bounds arguments.
EngineMenu ==
    {Call0("return"), Call0("trap"), Call0("panic")}
    \cup {CallBuf("value_return", 0, Len(b), p, b) :
            b \in {<<"Ok", "1000", "42">>, <<"Error", "boom">>, <<"Ok", "1000", "-1">>},
            p \in {0}}
    \cup {CallBuf("value_return", 0, 1, MemSize, <<>>)}
    \cup {CallBuf("panic_utf8", 0, Len(b), 0, b) : b \in {<<"boom">>, <<InvalidUtf8>>}}
    \cup {CallBuf("panic_utf8", 0, MemSize + 1, 0, <<>>)}
    \cup {CallReg(f, 0) : f \in {"register_len", "input", "predecessor_account_id"}}
    \cup {CallPtr("read_register", 0, p) : p \in {0, MemSize}}
    \cup {CallPtr("attached_deposit", 0, p) : p \in {WrappedZero, MemSize}}
    \cup {CallBuf("write_register", 0, 1, 0, <<"a">>)}
    \cup {Call("storage_write", 0, 1, 0, <<"a">>, 1, 1, <<"b">>)}
    \cup {CallBuf(f, 0, 1, 0, <<"a">>) :
            f \in {"storage_read", "storage_remove", "storage_has_key"}}
    \cup {Call0(f) : f \in {"sha256", "promise_create"}}

\* The calls open to the running guest.
GuestCalls(menu) ==
    IF running.program = "example_dex" THEN {ExampleDexCall}
    ELSE {c \in menu : \/ c.fn \in {"return", "trap"}
                       \/ c.fn \in running.imports /\ gpc < MaxCalls}

(***************************************************************************)
(* SandboxedDexEngine.                                                     *)
(***************************************************************************)
\* deploy_code(id, code) called by `caller`
DeployCode(caller, id, code) ==
    /\ pc # "guest"
    /\ codes' = Insert(codes, DexId(caller, id), code)
    /\ UNCHANGED <<balances, storage, pricevars, runnervars, callvars>>

\* The request swap synthesizes.
SynthesizedRequest ==
    SwapRequest("1", "Near", "Nep141(wrap.near)", "ExactIn", "1000000000000000000000000")

\* linker.instantiate_and_start(&mut store, &module) succeeds: every import
\* resolves against the registered functions and the start routine, if
\* any, does not trap.
InstantiateOk(code) == code.imports \subseteq Catalog /\ code.start # "traps"

\* A swap that looks for the swap export before it instantiates the module.
LoadFailureResolveFirst(dex_id, deposit) ==
    IF deposit # 1 THEN "Requires attached deposit of exactly 1 yoctoNEAR"
    ELSE IF dex_id \notin DOMAIN codes THEN "Dex code not found"
    ELSE IF ~codes[dex_id].wasm THEN "Failed to load module"
    ELSE IF "swap" \notin codes[dex_id].exports THEN "Failed to get function"
    ELSE IF codes[dex_id].imports \subseteq Catalog /\ codes[dex_id].start # "traps"
    THEN "" ELSE "Failed to instantiate module"

\* A swap that parses the module before it looks at the deposit and at the
\* stored codes.
LoadFailureParseFirst(dex_id, deposit) ==
    IF dex_id \in DOMAIN codes /\ ~codes[dex_id].wasm THEN "Failed to load module"
    ELSE IF deposit # 1 THEN "Requires attached deposit of exactly 1 yoctoNEAR"
    ELSE IF dex_id \notin DOMAIN codes THEN "Dex code not found"
    ELSE IF ~(codes[dex_id].imports \subseteq Catalog /\ codes[dex_id].start # "traps")
    THEN "Failed to instantiate module"
    ELSE IF "swap" \notin codes[dex_id].exports THEN "Failed to get function"
    ELSE ""

\* The part of swap that runs before the guest's export is called; "" when
\* it gets that far, else the panic that ends the call.
LoadFailure(dex_id, deposit) ==
    IF deposit # 1 THEN "Requires attached deposit of exactly 1 yoctoNEAR"
    ELSE IF dex_id \notin DOMAIN codes THEN "Dex code not found"
    ELSE IF ~codes[dex_id].wasm THEN "Failed to load module"
    ELSE IF ~InstantiateOk(codes[dex_id]) THEN "Failed to instantiate module"
    ELSE IF "swap" \notin codes[dex_id].exports THEN "Failed to get function"
    ELSE ""

\* A keyspace carried over from the invocation before.
LeftoverStorage(dex_id) == persistent_storage

\* let mut storage = HashMap::new(): the keyspace handed to the guest of
\* dex_id; self.storage is not consulted.
NewStorage(dex_id) == EmptyMap

\* swap(dex_id) called by `caller` with `deposit` attached, up to the call
\* of the guest's swap export.
SwapStart(caller, dex_id, deposit) ==
    /\ pc # "guest"
    /\ response' = ResponseNone
    /\ registers' = EmptyMap
    /\ persistent_storage' = NewStorage(dex_id)
    /\ gpc' = 0
    /\ ret' = 0
    /\ copied' = NoCopy
    /\ last_call' = NoCall
    /\ IF LoadFailure(dex_id, deposit) # ""
       THEN /\ pc' = "rejected"
            /\ outcome' = Failed(LoadFailure(dex_id, deposit), <<>>)
            /\ request' = NoRequest
            /\ predecessor_id' = ""
            /\ running' = NotWasm
       ELSE /\ pc' = "guest"
            /\ outcome' = NoOutcome
            /\ request' = SynthesizedRequest
            /\ predecessor_id' = caller
            /\ running' = codes[dex_id]
    /\ UNCHANGED <<enginevars, pricevars>>

\* The dispatch of a guest call to the function registered under its name.
HostCall(c) ==
    \/ c.fn = "register_len" /\ register_len(c)
    \/ c.fn = "read_register" /\ read_register(c)
    \/ c.fn = "write_register" /\ write_register(c)
    \/ c.fn = "input" /\ input(c)
    \/ c.fn = "attached_deposit" /\ attached_deposit(c)
    \/ c.fn = "predecessor_account_id" /\ predecessor_account_id(c)
    \/ c.fn = "value_return" /\ value_return(c)
    \/ c.fn = "panic" /\ panic(c)
    \/ c.fn = "panic_utf8" /\ panic_utf8(c)
    \/ c.fn = "storage_write" /\ storage_write(c)
    \/ c.fn = "storage_read" /\ storage_read(c)
    \/ c.fn = "storage_remove" /\ storage_remove(c)
    \/ c.fn = "storage_has_key" /\ storage_has_key(c)
    \/ c.fn \in Unimplemented /\ unimplemented(c)

\* The guest calls a host function.
GuestHostCall(menu) ==
    /\ pc = "guest"
    /\ \E c \in GuestCalls(menu) :
          /\ c.fn \in Catalog
          /\ HostCall(c)
          /\ last_call' = c
    /\ gpc' = gpc + 1
    /\ UNCHANGED <<request, predecessor_id, running, enginevars, pricevars>>

\* A swap result that hands out amount_in and treats a missing response as 0.
SwapResultLoose(resp) ==
    IF resp.kind = "Ok" THEN Returned(resp.amount_in)
    ELSE IF resp.kind = "Error" THEN Failed("Error returned from wasm", resp.message)
    ELSE Returned("0")

\* match &store.data().response { ... }
SwapResult(resp) ==
    IF resp.kind = "Ok" THEN Returned(resp.amount_out)
    ELSE IF resp.kind = "Error" THEN Failed("Error returned from wasm", resp.message)
    ELSE Failed("No response from swap", <<>>)

\* A swap that writes the guest's keyspace back into self.storage.
StorageWrittenBack(stor) == Insert(storage, DexId(predecessor_id, "example"), stor)

\* The guest's keyspace is a local of swap, dropped when swap ends:
\* self.storage keeps its value.
StorageAfterSwap(stor) == storage

\* swap_func.call returns Ok(()): the response slot decides the result.
GuestReturn(menu) ==
    /\ pc = "guest"
    /\ Call0("return") \in GuestCalls(menu)
    /\ pc' = "returned"
    /\ outcome' = SwapResult(response)
    /\ storage' = StorageAfterSwap(persistent_storage)
    /\ UNCHANGED <<running, gpc, ret, copied, last_call, runnervars, codes, balances,
                   pricevars>>

\* A trap that ends with whatever the response slot holds.
TrapResultLenient(resp) == SwapResult(resp)

\* Err(err) => panic!("Failed to call function: {err:?}")
TrapResult(resp) == Failed("Failed to call function", <<>>)

\* swap_func.call returns Err: the guest trapped (unreachable, a wasm fault).
GuestTrap(menu) ==
    /\ pc = "guest"
    /\ Call0("trap") \in GuestCalls(menu)
    /\ pc' = "trapped"
    /\ outcome' = TrapResult(response)
    /\ UNCHANGED <<running, gpc, ret, copied, last_call, runnervars, enginevars, pricevars>>

(***************************************************************************)
(* The engine specification.                                               *)
(***************************************************************************)
RunInit ==
    /\ request = NoRequest
    /\ response = ResponseNone
    /\ registers = EmptyMap
    /\ persistent_storage = EmptyMap
    /\ predecessor_id = ""
    /\ pc = "idle"
    /\ running = NotWasm
    /\ gpc = 0
    /\ ret = 0
    /\ copied = NoCopy
    /\ last_call = NoCall
    /\ outcome = NoOutcome

EngineInit ==
    /\ codes = EmptyMap
    /\ balances = EmptyMap
    /\ storage = EmptyMap

\* The guest contract as deployed: no method of it inserts a pool.
Init ==
    /\ EngineInit
    /\ RunInit
    /\ pools = EmptyMap
    /\ priced = FALSE
    /\ preq = NoRequest
    /\ presp = ResponseNone

Next ==
    \/ \E a \in Accounts, n \in DexNames, code \in CodeBlobs : DeployCode(a, n, code)
    \/ \E a \in Accounts, d \in DexIds, y \in Deposits : SwapStart(a, d, y)
    \/ GuestHostCall(EngineMenu)
    \/ GuestReturn(EngineMenu)
    \/ GuestTrap(EngineMenu)

Spec == Init /\ [][Next]_vars

(***************************************************************************)
(* The pricing specification: SimpleSwap::swap on every bounded pool map   *)
(* and request.  Pool maps are given, as stored state of the guest.        *)
(***************************************************************************)
PoolValues ==
    {SimplePool(SimplePoolAsset(a0, b0), SimplePoolAsset(a1, b1)) :
        a0 \in AssetIds, a1 \in AssetIds, b0 \in Balances, b1 \in Balances}

PoolMaps == {EmptyMap} \cup {(id :> p) : id \in PoolIds, p \in PoolValues}

SwapRequests ==
    {SwapRequest(id, ai, ao, k, v) :
        id \in PoolIds, ai \in AssetIds, ao \in AssetIds,
        k \in SwapRequestAmountKinds, v \in Amounts}

PriceInit ==
    /\ EngineInit
    /\ RunInit
    /\ pools \in PoolMaps
    /\ priced = FALSE
    /\ preq = NoRequest
    /\ presp = ResponseNone

\* One call of SimpleSwap::swap(&mut self, request); it writes no pool, so a
\* second call would see the same state and is not followed.
Price(req) ==
    /\ ~priced
    /\ priced' = TRUE
    /\ preq' = req
    /\ presp' = SimpleSwap_swap(pools, req)
    /\ UNCHANGED <<pools, enginevars, runnervars, callvars>>

PriceNext == \E req \in SwapRequests : Price(req)

SpecPrice == PriceInit /\ [][PriceNext]_vars

(***************************************************************************)
(* Properties of the pricing function (checked under SpecPrice).           *)
(***************************************************************************)
\* The request was priced against a stored pool holding both its assets.
OnValidPool ==
    /\ priced
    /\ preq.pool_id \in DOMAIN pools
    /\ preq.asset_in \in {pools[preq.pool_id][1].asset_id, pools[preq.pool_id][2].asset_id}
    /\ preq.asset_out \in {pools[preq.pool_id][1].asset_id, pools[preq.pool_id][2].asset_id}

\* The in side is the pool's first asset.
FirstIn == pools[preq.pool_id][1].asset_id = preq.asset_in

BalanceIn ==
    IF FirstIn THEN pools[preq.pool_id][1].balance ELSE pools[preq.pool_id][2].balance

BalanceOut ==
    IF FirstIn THEN pools[preq.pool_id][2].balance ELSE pools[preq.pool_id][1].balance

IsExactIn == preq.amount.kind = "ExactIn"

IsExactOut == preq.amount.kind = "ExactOut"

Amount == preq.amount.value

\* floor(amount_in * balance_out / (balance_in + amount_in))
FloorOut == (Amount * BalanceOut) \div (BalanceIn + Amount)

\* floor(balance_in * amount_out / (balance_out - amount_out))
FloorIn == (BalanceIn * Amount) \div (BalanceOut - Amount)

DivisionExact == (BalanceIn * Amount) % (BalanceOut - Amount) = 0

\* The constant product does not decrease when n comes in and m goes out.
ProductKept(n, m) == (BalanceIn + n) * (BalanceOut - m) >= BalanceIn * BalanceOut

\* n is the least input that keeps the constant product for output Amount.
IsMinimumInput(n) ==
    /\ ProductKept(n, Amount)
    /\ n > 0 => ~ProductKept(n - 1, Amount)

\* C1: for every pool that holds both request assets and every amount_in > 0,
\* an ExactIn request returns Ok with amount_in echoed and
\* amount_out = floor(amount_in * balance_out / (balance_in + amount_in)).
C1_ExactInReturnsFloor ==
    (OnValidPool /\ IsExactIn /\ Amount > 0) => presp = ResponseOk(Amount, FloorOut)

\* C2 as stated, for the requests the pool-"1" placeholder does not answer:
\* every ExactOut request with 0 < amount_out < balance_out returns Ok with
\* amount_out echoed and amount_in = floor(..) + 1, and when the division is
\* inexact the result exceeds the true minimum input by exactly one.
C2_AsStated ==
    (OnValidPool /\ preq.pool_id # "1" /\ IsExactOut /\ 0 < Amount /\ Amount < BalanceOut)
    => /\ presp = ResponseOk(FloorIn + 1, Amount)
       /\ ~DivisionExact => IsMinimumInput(presp.amount_in - 1)

\* C2 (amended): an ExactOut request with 0 < amount_out < balance_out on a
\* pool holding both assets is answered by the placeholder error when the
\* pool id is "1"; otherwise it panics when floor(balance_in * amount_out /
\* (balance_out - amount_out)) + 1 does not fit the u128, and else returns Ok
\* with amount_out echoed and amount_in equal to that value: one more than
\* the true minimum input when the division is exact, the true minimum when
\* it is inexact.
C2_ExactOutFloorPlusOne ==
    (OnValidPool /\ IsExactOut /\ 0 < Amount /\ Amount < BalanceOut)
    => IF preq.pool_id = "1" THEN presp = ResponseError(StubMessage)
       ELSE IF FloorIn + 1 > U128_MAX
       THEN presp = GuestPanic(Str("Integer overflow when casting to u128"))
       ELSE /\ presp = ResponseOk(FloorIn + 1, Amount)
            /\ DivisionExact => IsMinimumInput(presp.amount_in - 1)
            /\ ~DivisionExact => IsMinimumInput(presp.amount_in)

\* The scenario of the text: 10000/10000 and amount_out 909 give amount_in 1000.
C2_Witness ==
    /\ OnValidPool /\ IsExactOut /\ Amount = 909
    /\ BalanceIn = 10000 /\ BalanceOut = 10000
    /\ ~DivisionExact
    /\ presp = ResponseOk(1000, 909)

\* C3 as stated: the amount_out computed by ExactIn is strictly less than
\* balance_out and the constant product does not decrease.
C3_AsStated ==
    (OnValidPool /\ IsExactIn /\ Amount > 0 /\ presp.kind = "Ok")
    => /\ presp.amount_out < BalanceOut
       /\ ProductKept(presp.amount_in, presp.amount_out)

\* C3 (amended): the amount_out computed by ExactIn is at most balance_out,
\* strictly less when both balances are positive, and the constant product
\* does not decrease.
C3_ExactInKeepsProduct ==
    (OnValidPool /\ IsExactIn /\ Amount > 0 /\ presp.kind = "Ok")
    => /\ presp.amount_out <= BalanceOut
       /\ (BalanceIn > 0 /\ BalanceOut > 0) => presp.amount_out < BalanceOut
       /\ ProductKept(presp.amount_in, presp.amount_out)

\* An ExactIn priced with an inexact division and a positive output.
C3_Witness ==
    /\ OnValidPool /\ IsExactIn /\ Amount > 0 /\ presp.kind = "Ok"
    /\ BalanceIn > 0
    /\ presp.amount_out > 0
    /\ (Amount * BalanceOut) % (BalanceIn + Amount) # 0

\* C4: for every ExactOut request with 0 < amount_out < balance_out the
\* constant product does not decrease for the computed amount_in.
C4_ExactOutKeepsProduct ==
    (OnValidPool /\ IsExactOut /\ 0 < Amount /\ Amount < BalanceOut /\ presp.kind = "Ok")
    => ProductKept(presp.amount_in, presp.amount_out)

\* An ExactOut priced with an inexact division.
C4_Witness ==
    /\ OnValidPool /\ IsExactOut /\ 0 < Amount /\ Amount < BalanceOut
    /\ presp.kind = "Ok"
    /\ BalanceIn > 0
    /\ ~DivisionExact

\* C5: an ExactOut request whose amount_out equals or exceeds balance_out
\* never returns Ok: once pool and assets are accepted it ends in a panic
\* (the amount check, the division by zero, or the checked subtraction).
C5_ExactOutDrainRejected ==
    (OnValidPool /\ IsExactOut /\ Amount >= BalanceOut)
    => /\ presp.kind # "Ok"
       /\ preq.pool_id # "1" =>
            presp = GuestPanic(Str(IF Amount = 0 THEN "Amount must be greater than 0"
                                   ELSE IF Amount = BalanceOut THEN "division by zero"
                                   ELSE "arithmetic operation overflow"))

\* Both cases are priced: amount_out equal to balance_out ...
C5_Witness ==
    /\ OnValidPool /\ IsExactOut /\ preq.pool_id # "1"
    /\ Amount > 0 /\ Amount = BalanceOut
    /\ presp.kind = "Panic"

\* ... and amount_out above balance_out.
C5_WitnessAbove ==
    /\ OnValidPool /\ IsExactOut /\ preq.pool_id # "1"
    /\ Amount > BalanceOut
    /\ presp.kind = "Panic"

(***************************************************************************)
(* Properties of the engine (checked under Spec).                          *)
(***************************************************************************)
\* C6: when the guest's swap export returns normally the response slot alone
\* decides the result: Ok yields its amount_out, Error fails with the guest's
\* message, no response fails with "No response from swap"; and a numeric
\* result is returned in no other case.
C6_ResponseDecidesResult ==
    /\ pc = "returned" =>
         /\ response.kind = "Ok" => outcome = Returned(response.amount_out)
         /\ response.kind = "Error" =>
              outcome = Failed("Error returned from wasm", response.message)
         /\ response.kind = "None" => outcome = Failed("No response from swap", <<>>)
    /\ outcome.kind = "value" => pc = "returned" /\ response.kind = "Ok"

\* A guest returned after capturing an Ok response whose two amounts differ.
C6_Witness ==
    /\ pc = "returned"
    /\ response.kind = "Ok"
    /\ response.amount_in # response.amount_out
    /\ outcome = Returned("42")

\* Returns with an Error response and with none are reached as well.
C6_WitnessError ==
    pc = "returned" /\ response.kind = "Error" /\ outcome.detail = Str("boom")

C6_WitnessNone == pc = "returned" /\ response.kind = "None"

\* C7: after the example-dex module is deployed, a swap call on it with one
\* yoctoNEAR attached completes successfully and returns a numeric amount
\* (42 in the repository's test).
C7_ExampleDexSwapReturns ==
    (running = ExampleDex /\ pc \notin {"idle", "guest"}) => outcome = Returned("42")

\* The guest's last host call was one of the unimplemented catalog entries.
CalledUnimplemented == last_call.fn \in Unimplemented

\* C8: importing unimplemented host functions changes nothing by itself (the
\* module links exactly when it links without those imports, and no call
\* fails for a missing function unless one was invoked), while invoking one
\* never returns to the guest and fails the swap call naming the function.
C8_FailClosed ==
    /\ \A d \in DOMAIN codes :
          InstantiateOk(codes[d])
            = InstantiateOk([codes[d] EXCEPT !.imports = @ \ Unimplemented])
    /\ CalledUnimplemented =>
          /\ pc = "aborted"
          /\ outcome = Failed("not implemented: Function is not implemented",
                              Str(last_call.fn))
    /\ outcome.reason = "not implemented: Function is not implemented"
          => CalledUnimplemented

\* A guest linked against the full ABI invoked an unimplemented function.
C8_Witness ==
    /\ running = FreeGuestFullAbi
    /\ CalledUnimplemented
    /\ pc = "aborted"
    /\ gpc = 2

\* A guest that imports the full ABI and calls none of it runs to a result.
C8_WitnessNeverCalled ==
    running = FreeGuestFullAbi /\ pc = "returned" /\ outcome.kind = "value"

\* The last host call asked for guest memory outside the guest's memory.
LastCallOutOfBounds ==
    \/ /\ last_call.fn \in {"write_register", "value_return", "panic_utf8",
                            "storage_write", "storage_read", "storage_remove",
                            "storage_has_key"}
       /\ ~MemOk(last_call.ptr, last_call.len)
    \/ last_call.fn = "storage_write" /\ ~MemOk(last_call.vptr, last_call.vlen)
    \/ last_call.fn = "attached_deposit" /\ ~MemOk(last_call.ptr, Len(ZeroDepositBytes))
    \/ /\ last_call.fn = "read_register"
       /\ last_call.register_id \in DOMAIN registers
       /\ ~MemOk(last_call.ptr, Len(registers[last_call.register_id]))

\* The last host call was a value_return whose payload is no SwapResponse.
LastCallMalformedReturn ==
    /\ last_call.fn = "value_return"
    /\ ParseSwapResponse(last_call.bytes).kind = "ParseError"

\* C9: any trap during guest execution (an unimplemented host function, an
\* out-of-bounds guest memory access, a value_return payload that does not
\* parse, a trap of the guest itself) fails the whole swap call: no numeric
\* result is returned, whatever response was captured before.
C9_TrapFailsCall ==
    /\ (CalledUnimplemented \/ LastCallOutOfBounds \/ LastCallMalformedReturn)
          => pc = "aborted"
    /\ pc \in {"aborted", "trapped"} => outcome.kind = "failed"

\* An Ok response was captured and a later value_return did not parse.
C9_Witness ==
    /\ pc = "aborted"
    /\ response.kind = "Ok"
    /\ LastCallMalformedReturn
    /\ MemOk(last_call.ptr, last_call.len)

\* An Ok response was captured and the guest then trapped.
C9_WitnessTrap == pc = "trapped" /\ response.kind = "Ok" /\ outcome.kind = "failed"

C9_WitnessOutOfBounds == pc = "aborted" /\ response.kind = "Ok" /\ LastCallOutOfBounds

\* C10: panic and panic_utf8 capture an Error response and stop the guest:
\* after either of them no further host call of the guest takes effect, so
\* the captured response is not replaced and nothing else of the
\* invocation's state changes.
C10_PanicStopsGuest ==
    [][(pc = "guest" /\ last_call.fn \in {"panic", "panic_utf8"})
        => /\ response' = response
           /\ registers' = registers
           /\ persistent_storage' = persistent_storage]_vars

(***************************************************************************)
(* The bridge specification: the engine running guests that exercise the   *)
(* register table and the storage keyspace, over several invocations.      *)
(***************************************************************************)
\* Host calls one invocation makes before the bridge specification stops
\* following it.
MaxBridgeCalls == 3

\* Register ids the bridge guest names; no call of the menu writes
\* register 2.
BridgeRegisters == {0, 1}

UnwrittenRegister == 2

BridgeValues == {<<"a">>, <<"b", "c">>}

BridgeKey == <<"k">>

OtherKey == <<"j">>

\* What the bridge guest may do next: end, or one in-bounds register or
\* storage call.
BridgeMenu ==
    {Call0("return")}
    \cup {CallBuf("write_register", r, Len(b), 0, b) :
            r \in BridgeRegisters, b \in BridgeValues}
    \cup {CallReg("register_len", r) : r \in BridgeRegisters \cup {UnwrittenRegister}}
    \cup {CallPtr("read_register", r, 0) : r \in BridgeRegisters \cup {UnwrittenRegister}}
    \cup {Call("storage_write", 1, Len(BridgeKey), 0, BridgeKey, Len(b), 1, b) :
            b \in BridgeValues}
    \cup {Call("storage_write", 1, Len(OtherKey), 0, OtherKey, 1, 1, <<"a">>)}
    \cup {CallBuf(f, 1, Len(BridgeKey), 0, BridgeKey) :
            f \in {"storage_read", "storage_remove", "storage_has_key"}}
    \cup {CallBuf("storage_has_key", 1, Len(OtherKey), 0, OtherKey)}

\* The bridge guest calls a host function.
BridgeCall ==
    /\ pc = "guest"
    /\ gpc < MaxBridgeCalls
    /\ \E c \in BridgeMenu :
          /\ c.fn \in running.imports
          /\ HostCall(c)
          /\ last_call' = c
    /\ gpc' = gpc + 1
    /\ UNCHANGED <<request, predecessor_id, running, enginevars, pricevars>>

BridgeNext ==
    \/ \E a \in Accounts, n \in DexNames : DeployCode(a, n, FreeGuest)
    \/ \E a \in Accounts, d \in DexIds, y \in Deposits : SwapStart(a, d, y)
    \/ BridgeCall
    \/ GuestReturn(BridgeMenu)

SpecBridge == Init /\ [][BridgeNext]_vars

(***************************************************************************)
(* Properties of the register table and the storage keyspace (checked      *)
(* under SpecBridge).                                                      *)
(***************************************************************************)
\* The step is a host call of the running guest.
IsHostCallStep == pc = "guest" /\ gpc' = gpc + 1

\* No call of the menu writes register r.
NeverWritten(r) ==
    \A c \in BridgeMenu :
        c.fn \in {"write_register", "input", "predecessor_account_id",
                  "storage_write", "storage_read", "storage_remove"}
            => c.register_id # r

\* C11: register round trip within one invocation.  When the guest's previous
\* host call wrote bytes B to register R (whatever R held before: the last
\* write wins), register_len(R) returns len(B) and read_register(R) copies
\* exactly B to the guest; for a register not written in this invocation
\* (the first call of the invocation, or a register no call writes)
\* register_len returns u64::MAX and read_register is fatal.
C11_RegisterRoundTrip ==
    [][IsHostCallStep =>
         /\ (/\ last_call.fn = "write_register"
             /\ last_call'.register_id = last_call.register_id
             /\ last_call'.fn = "register_len")
              => pc' = "guest" /\ ret' = Len(last_call.bytes)
         /\ (/\ last_call.fn = "write_register"
             /\ last_call'.register_id = last_call.register_id
             /\ last_call'.fn = "read_register"
             /\ MemOk(last_call'.ptr, Len(last_call.bytes)))
              => pc' = "guest" /\ copied'.bytes = last_call.bytes
         /\ (/\ gpc = 0 \/ NeverWritten(last_call'.register_id)
             /\ last_call'.fn = "register_len")
              => pc' = "guest" /\ ret' = U64_MAX
         /\ (/\ gpc = 0 \/ NeverWritten(last_call'.register_id)
             /\ last_call'.fn = "read_register")
              => pc' = "aborted" /\ outcome'.kind = "failed"]_vars

\* A third call read back what the second wrote.
C11_Witness ==
    /\ pc = "guest"
    /\ gpc = 3
    /\ last_call.fn = "read_register"
    /\ copied.bytes = <<"b", "c">>
    /\ registers[last_call.register_id] = <<"b", "c">>

\* An unwritten register was read after other calls had written registers.
C11_WitnessUnwritten ==
    /\ pc = "aborted"
    /\ gpc = 3
    /\ last_call.fn = "read_register"
    /\ last_call.register_id = UnwrittenRegister
    /\ registers # EmptyMap

\* The reference map: byte-string keys to byte-string values.
RefPresent(m, k) == k \in DOMAIN m

\* m2 is m with k mapped to v and every other key as in m.
RefIsWrite(m, k, v, m2) ==
    /\ DOMAIN m2 = DOMAIN m \cup {k}
    /\ m2[k] = v
    /\ \A j \in DOMAIN m \ {k} : m2[j] = m[j]

\* m2 is m without k and every other key as in m.
RefIsRemove(m, k, m2) ==
    /\ DOMAIN m2 = DOMAIN m \ {k}
    /\ \A j \in DOMAIN m2 : m2[j] = m[j]

\* The call returned `flag` and, when the key was present, placed its old
\* value in the given register, leaving the registers alone otherwise.
RefReports(m, k, r) ==
    IF RefPresent(m, k)
    THEN ret' = 1 /\ r \in DOMAIN registers' /\ registers'[r] = m[k]
    ELSE ret' = 0 /\ registers' = registers

\* C12: within one invocation the storage host calls behave like a
\* reference map from byte-string keys to byte-string values that starts
\* empty.  storage_write returns 1 and places the previous value in the
\* register iff the key was present (0 otherwise) and then maps the key to
\* the new value; storage_read returns 1 and places the current value in the
\* register iff the key is present; storage_remove returns 1 and places the
\* removed value in the register iff the key was present, and the key is
\* absent afterwards; storage_has_key returns 1 iff the key is present and
\* changes nothing.  A read, has-key or remove that follows a write of the
\* same key sees the value written.
C12_StorageIsReferenceMap ==
    [][/\ (pc' = "guest" /\ gpc' = 0) => persistent_storage' = EmptyMap
       /\ IsHostCallStep =>
            LET c == last_call'
                m == persistent_storage
                k == last_call'.bytes
            IN  /\ c.fn = "storage_write" =>
                     /\ pc' = "guest"
                     /\ RefReports(m, k, c.register_id)
                     /\ RefIsWrite(m, k, c.vbytes, persistent_storage')
                /\ c.fn = "storage_read" =>
                     /\ pc' = "guest"
                     /\ RefReports(m, k, c.register_id)
                     /\ persistent_storage' = m
                /\ c.fn = "storage_remove" =>
                     /\ pc' = "guest"
                     /\ RefReports(m, k, c.register_id)
                     /\ RefIsRemove(m, k, persistent_storage')
                /\ c.fn = "storage_has_key" =>
                     /\ pc' = "guest"
                     /\ ret' = (IF RefPresent(m, k) THEN 1 ELSE 0)
                     /\ registers' = registers
                     /\ persistent_storage' = m
                /\ (/\ last_call.fn = "storage_write"
                    /\ last_call.bytes = k
                    /\ c.fn \in {"storage_read", "storage_remove"})
                     => ret' = 1 /\ registers'[c.register_id] = last_call.vbytes
                /\ (/\ last_call.fn = "storage_write"
                    /\ last_call.bytes = k
                    /\ c.fn = "storage_has_key")
                     => ret' = 1
                /\ (/\ last_call.fn = "storage_remove"
                    /\ last_call.bytes = k
                    /\ c.fn \in {"storage_read", "storage_remove", "storage_has_key"})
                     => ret' = 0]_vars

\* A key written twice was removed: the call reported the second value and
\* the key is gone, the other key staying out of it.
C12_Witness ==
    /\ pc = "guest"
    /\ gpc = 3
    /\ last_call.fn = "storage_remove"
    /\ ret = 1
    /\ registers[last_call.register_id] = <<"b", "c">>
    /\ BridgeKey \notin DOMAIN persistent_storage

\* An overwrite reported the previous value.
C12_WitnessOverwrite ==
    /\ pc = "guest"
    /\ last_call.fn = "storage_write"
    /\ ret = 1
    /\ registers[last_call.register_id] = <<"a">>
    /\ DOMAIN persistent_storage = {BridgeKey, OtherKey}
    /\ persistent_storage[BridgeKey] = <<"b", "c">>

\* C13: every swap invocation starts with an empty storage keyspace, an
\* empty register table and no response, whatever earlier invocations did,
\* so that the first host call of an invocation finds no key and no
\* register, of the same module or of another.  (A swap call runs to its
\* end before the next one starts: invocations do not overlap.)
C13_FreshInvocation ==
    [][/\ (pc # "guest" /\ pc' = "guest") =>
            /\ gpc' = 0
            /\ persistent_storage' = EmptyMap
            /\ registers' = EmptyMap
            /\ response' = ResponseNone
       /\ (IsHostCallStep /\ gpc = 0) =>
            /\ last_call'.fn \in {"storage_read", "storage_remove", "storage_has_key",
                                  "storage_write"}
                 => ret' = 0
            /\ last_call'.fn = "register_len" => ret' = U64_MAX
            /\ last_call'.fn = "read_register" => pc' = "aborted"]_vars

\* An invocation has ended leaving a key and a register written, with two
\* modules deployed for the next invocation to run.
C13_Witness ==
    /\ pc = "returned"
    /\ BridgeKey \in DOMAIN persistent_storage
    /\ 0 \in DOMAIN registers
    /\ DOMAIN codes = DexIds

\* The first call of an invocation asked for the key and did not find it.
C13_WitnessFirstCall ==
    /\ pc = "guest"
    /\ gpc = 1
    /\ last_call.fn = "storage_has_key"
    /\ last_call.bytes = BridgeKey
    /\ ret = 0

(***************************************************************************)
(* Properties of the engine's durable state (checked under Spec).          *)
(***************************************************************************)
\* The step belongs to a swap call: it moves the call or its RunnerData.
IsSwapStep == callvars' # callvars \/ runnervars' # runnervars

\* C14: a swap call leaves the engine's durable state (stored codes,
\* balances ledger, per-module storage map) exactly as it was, in every
\* outcome: success, guest-reported error, or fatal failure; nothing the
\* guest writes is committed.
C14_SwapKeepsDurableState ==
    [][IsSwapStep => codes' = codes /\ balances' = balances /\ storage' = storage]_vars

\* A swap returned a value after its guest had written a key, and the
\* engine's storage map and ledger are still empty.
C14_Witness ==
    /\ pc = "returned"
    /\ outcome.kind = "value"
    /\ persistent_storage # EmptyMap
    /\ storage = EmptyMap
    /\ balances = EmptyMap

\* A swap failed after its guest had written a key.
C14_WitnessFailed ==
    /\ pc \in {"trapped", "aborted"}
    /\ persistent_storage # EmptyMap
    /\ storage = EmptyMap

\* C15: deploy_code(id, code) called by account A sets the code stored under
\* (A, id) to exactly code, replacing any previous blob wholesale, and
\* leaves every other entry as it was, present or absent; so no deploy_code
\* by another account changes or removes the code under a key whose
\* deployer is A.
C15_DeployCodeFrame ==
    [][\A a \in Accounts, n \in DexNames, code \in CodeBlobs :
          DeployCode(a, n, code) =>
             LET key == [deployer |-> a, id |-> n]
             IN  /\ key \in DOMAIN codes'
                 /\ codes'[key] = code
                 /\ DOMAIN codes' = DOMAIN codes \cup {key}
                 /\ \A k \in DOMAIN codes : k.deployer # a => codes'[k] = codes[k]
                 /\ \A k \in DOMAIN codes : k # key => codes'[k] = codes[k]]_vars

\* Both accounts have deployed under the same id, and each key holds its
\* own deployer's blob.
C15_Witness ==
    /\ DOMAIN codes = DexIds
    /\ codes[[deployer |-> "alice.near", id |-> "example"]] = ExampleDex
    /\ codes[[deployer |-> "bob.near", id |-> "example"]] = NotWasm

(***************************************************************************)
(* Domain errors of the pricing function (checked under SpecPrice).        *)
(***************************************************************************)
\* The request names a stored pool.
OnPool == priced /\ preq.pool_id \in DOMAIN pools

PoolAssetIds == {pools[preq.pool_id][1].asset_id, pools[preq.pool_id][2].asset_id}

\* The call ended with the domain error `text`: no Ok response, and the
\* message of the Error response or of the failed require!.
IsDomainError(text) == presp.kind \in {"Error", "Panic"} /\ presp.message = Str(text)

\* C16: for every request whose pool_id does not name an existing pool the
\* pricing engine returns the error response with message "Pool not found",
\* whatever the other request fields are.
C16_PoolNotFound ==
    (priced /\ preq.pool_id \notin DOMAIN pools)
        => presp = ResponseError(Str("Pool not found"))

\* C17: on an existing pool, an asset_in that is not one of the pool's two
\* assets gives the domain error "Invalid asset in"; otherwise an asset_out
\* that is not one of them gives "Invalid asset out"; no amount is computed.
C17_InvalidAsset ==
    OnPool =>
        /\ preq.asset_in \notin PoolAssetIds => IsDomainError("Invalid asset in")
        /\ (preq.asset_in \in PoolAssetIds /\ preq.asset_out \notin PoolAssetIds)
             => IsDomainError("Invalid asset out")

\* C18: on an existing pool with both assets valid, an ExactIn amount of 0
\* and an ExactOut amount of 0 both give the domain error "Amount must be
\* greater than 0" and never an Ok response.
C18_ZeroAmount ==
    (OnValidPool /\ preq.amount.value = 0)
        => IsDomainError("Amount must be greater than 0")

\* How the outer swap call ends when SimpleSwap::swap, run by the near-sdk
\* wrapper inside the engine, ends with `result`, an Error response or a
\* panic.  An Error response is serialized and handed to value_return, the
\* export returns and the slot decides; a panic hands its message to
\* panic_utf8, which records an Error response and comes back, and the guest
\* then traps.
DomainErrorEnds(result) ==
    IF result.kind = "Panic"
    THEN TrapResult(ResponseError(result.message))
    ELSE SwapResult(ParseSwapResponse(ResponseJson(result)))

DomainMessages ==
    {Str("Pool not found"), Str("Invalid asset in"), Str("Invalid asset out"),
     Str("Amount must be greater than 0")}

\* C19: each guest-level domain error (pool not found, invalid asset in or
\* out, non-positive amount) reaches the host as the guest's Error response
\* and is re-raised: the outer swap call fails with "Error returned from
\* wasm: <message>", carrying the guest's message.
C19_DomainErrorsReRaised ==
    (priced /\ presp.kind \in {"Error", "Panic"} /\ presp.message \in DomainMessages)
        => DomainErrorEnds(presp) = Failed("Error returned from wasm", presp.message)

\* The ExactIn request that feeds the amount_in computed for preq back
\* through the pricing function, against the same pools.
FedBack ==
    SimpleSwap_swap(pools,
                    SwapRequest(preq.pool_id, preq.asset_in, preq.asset_out,
                                "ExactIn", presp.amount_in))

\* C20: for every ExactOut request with 0 < amount_out < balance_out for
\* which an amount_in is computed, feeding that amount_in back through
\* ExactIn against the same starting balances yields an amount_out that is
\* at least the requested one.
C20_ExactOutThenExactIn ==
    (OnValidPool /\ IsExactOut /\ 0 < Amount /\ Amount < BalanceOut /\ presp.kind = "Ok")
        => FedBack.kind = "Ok" /\ FedBack.amount_out >= Amount

\* The round trip on an inexact division gave back exactly the requested
\* amount (balances 10000/10000, amount_out 909, amount_in 1000).
C20_Witness ==
    /\ OnValidPool /\ IsExactOut /\ presp.kind = "Ok"
    /\ BalanceIn = 10000 /\ BalanceOut = 10000 /\ Amount = 909
    /\ presp.amount_in = 1000
    /\ FedBack.amount_out = 909

\* The round trip gave back strictly more than was requested.
C20_WitnessMore ==
    /\ OnValidPool /\ IsExactOut /\ presp.kind = "Ok"
    /\ 0 < Amount /\ Amount < BalanceOut /\ BalanceIn > 0
    /\ FedBack.kind = "Ok" /\ FedBack.amount_out > Amount

\* The ExactOut request that asks for the amount_out computed for preq,
\* priced against the same pools.
PricedBack ==
    SimpleSwap_swap(pools,
                    SwapRequest(preq.pool_id, preq.asset_in, preq.asset_out,
                                "ExactOut", presp.amount_out))

\* C21 as stated: for every pool and every x > 0, ExactIn(x) and then
\* ExactOut(result) against the original balances recovers an amount_in'
\* with amount_in' <= x + 1.
C21_AsStated ==
    (OnValidPool /\ IsExactIn /\ Amount > 0)
        => PricedBack.kind = "Ok" /\ PricedBack.amount_in <= Amount + 1

\* C21: for every pool other than the placeholder pool "1" and every x > 0,
\* ExactIn(x) returns a result; when 0 < result < balance_out, ExactOut(result)
\* against the original balances recovers amount_in' <= x + 1, or panics on
\* the cast when x is u128::MAX and amount_in' would be x + 1; a result of 0
\* is rejected by ExactOut ("Amount must be greater than 0") and a result
\* equal to balance_out (balance_in = 0) makes it divide by zero.  On pool
\* "1" the placeholder error is the answer.
C21_RoundTripTolerance ==
    (OnValidPool /\ IsExactIn /\ Amount > 0) =>
        IF preq.pool_id = "1" THEN presp = ResponseError(StubMessage)
        ELSE /\ presp.kind = "Ok"
             /\ IF presp.amount_out = 0
                THEN PricedBack = GuestPanic(Str("Amount must be greater than 0"))
                ELSE IF presp.amount_out = BalanceOut
                THEN BalanceIn = 0 /\ PricedBack = GuestPanic(PanicText(PanicDivZero))
                ELSE \/ /\ PricedBack.kind = "Ok"
                        /\ PricedBack.amount_out = presp.amount_out
                        /\ PricedBack.amount_in <= Amount + 1
                     \/ /\ Amount = U128_MAX
                        /\ PricedBack = GuestPanic(PanicText(PanicCast))

\* A round trip that recovered exactly x + 1.
C21_Witness ==
    /\ OnValidPool /\ IsExactIn /\ Amount > 0 /\ preq.pool_id # "1"
    /\ presp.kind = "Ok" /\ 0 < presp.amount_out /\ presp.amount_out < BalanceOut
    /\ PricedBack.kind = "Ok"
    /\ PricedBack.amount_in = Amount + 1

\* An ExactIn whose result is 0, which ExactOut rejects.
C21_WitnessZero ==
    /\ OnValidPool /\ IsExactIn /\ Amount > 0 /\ preq.pool_id # "1"
    /\ presp.kind = "Ok" /\ presp.amount_out = 0 /\ BalanceOut > 0
    /\ PricedBack.kind = "Panic"

\* A round trip whose amount_in' does not fit in 128 bits.
C21_WitnessCast ==
    /\ OnValidPool /\ IsExactIn /\ Amount = U128_MAX /\ preq.pool_id # "1"
    /\ PricedBack = GuestPanic(PanicText(PanicCast))

(***************************************************************************)
(* Memory faults (checked under Spec).                                     *)
(***************************************************************************)
\* The bytes [ptr, ptr + len) of the guest's 64-bit arguments are not all
\* inside its memory.
RangeOutside(ptr, len) == ptr + len > MemSize

\* The host call c names a byte range that is not wholly inside the guest's
\* memory.
NamesRangeOutside(c) ==
    \/ /\ c.fn \in {"write_register", "value_return", "panic_utf8", "storage_write",
                    "storage_read", "storage_remove", "storage_has_key"}
       /\ RangeOutside(c.ptr, c.len)
    \/ c.fn = "storage_write" /\ RangeOutside(c.vptr, c.vlen)
    \/ c.fn = "attached_deposit" /\ RangeOutside(c.ptr, Len(ZeroDepositBytes))
    \/ /\ c.fn = "read_register"
       /\ c.register_id \in DOMAIN registers
       /\ RangeOutside(c.ptr, Len(registers[c.register_id]))

\* C22: for every implemented host function that takes a guest pointer or
\* length, and every 64-bit pointer and length, values of 2^32 and above
\* included, whose byte range is not wholly inside the guest's memory, the
\* call is fatal and leaves registers, storage and the response slot as
\* they were.
C22_MemoryFaultIsFatal ==
    [][(IsHostCallStep /\ NamesRangeOutside(last_call')) =>
          /\ pc' = "aborted"
          /\ outcome'.kind = "failed"
          /\ registers' = registers
          /\ persistent_storage' = persistent_storage
          /\ response' = response]_vars

(***************************************************************************)
(* Side selection of the pricing function (checked under SpecPrice).       *)
(***************************************************************************)
\* The balance the pool of preq records for `asset`.
RecordedBalance(asset) ==
    IF pools[preq.pool_id][1].asset_id = asset
    THEN pools[preq.pool_id][1].balance
    ELSE pools[preq.pool_id][2].balance

\* The amount the formulas give on the balances recorded for asset_in and
\* asset_out.
AmountOnRecordedSides ==
    IF IsExactIn
    THEN ExactInAmountOut(RecordedBalance(preq.asset_in),
                          RecordedBalance(preq.asset_out), Amount)
    ELSE ExactOutAmountIn(RecordedBalance(preq.asset_in),
                          RecordedBalance(preq.asset_out), Amount)

\* The pools with the pair of preq's pool stored the other way round.
PairReversed ==
    [pools EXCEPT ![preq.pool_id] = SimplePool(pools[preq.pool_id][2],
                                               pools[preq.pool_id][1])]

\* C23: for every request the pricing engine accepts, the balance used as
\* balance_in is the one recorded for asset_in and the balance used as
\* balance_out is the one recorded for asset_out, whichever position each
\* asset has in the pair; pricing the request against pool (X, Y) and
\* against pool (Y, X) gives the same response.
C23_SidesFollowAssets ==
    (OnValidPool /\ presp.kind = "Ok") =>
        /\ IsExactIn => presp.amount_out = AmountOnRecordedSides
        /\ IsExactOut => presp.amount_in = AmountOnRecordedSides
        /\ SimpleSwap_swap(PairReversed, preq) = presp

(***************************************************************************)
(* The loading specification: the engine on modules with every loading     *)
(* defect, alone and combined, running guests that only answer.            *)
(***************************************************************************)
\* Modules with two defects: which one is reported tells the order of the
\* host's steps.
UnknownImportNoSwap ==
    Blob(TRUE, Implemented \cup {"not_in_catalog"}, {"memory"}, "none", "free")

StartTrapsNoSwap == Blob(TRUE, Implemented, {"memory"}, "traps", "free")

LoadBlobs == CodeBlobs \cup {UnknownImportNoSwap, StartTrapsNoSwap}

\* What a guest of the loading specification may do: answer, end, trap.
LoadMenu ==
    {Call0("return"), Call0("trap"),
     CallBuf("value_return", 0, 3, 0, <<"Ok", "1000", "42">>)}

LoadNext ==
    \/ \E a \in Accounts, n \in DexNames, code \in LoadBlobs : DeployCode(a, n, code)
    \/ \E a \in Accounts, d \in DexIds, y \in Deposits : SwapStart(a, d, y)
    \/ GuestHostCall(LoadMenu)
    \/ GuestReturn(LoadMenu)
    \/ GuestTrap(LoadMenu)

SpecLoad == Init /\ [][LoadNext]_vars

(***************************************************************************)
(* Properties of loading (checked under SpecLoad).                         *)
(***************************************************************************)
\* The swap call ended with `reason` before the guest's export was called.
RejectedWith(reason) ==
    /\ pc' = "rejected"
    /\ outcome' = Failed(reason, <<>>)
    /\ gpc' = 0
    /\ last_call' = NoCall
    /\ response' = ResponseNone

\* C24: in every swap invocation the host parses the module, builds fresh
\* state, registers the host functions, instantiates the module and runs
\* its start routine, resolves the swap export, calls it and then reads the
\* response.  When parsing fails, or else instantiation fails, or else the
\* module has no swap export, the call is fatal with that step's error and
\* the export is never invoked; the response is read only once the export
\* has returned.
C24_HostStepOrder ==
    [][/\ \A a \in Accounts, d \in DexIds :
            (SwapStart(a, d, 1) /\ d \in DOMAIN codes) =>
               IF ~codes[d].wasm THEN RejectedWith("Failed to load module")
               ELSE IF ~(codes[d].imports \subseteq Catalog) \/ codes[d].start = "traps"
               THEN RejectedWith("Failed to instantiate module")
               ELSE IF "swap" \notin codes[d].exports
               THEN RejectedWith("Failed to get function")
               ELSE /\ pc' = "guest"
                    /\ running' = codes[d]
                    /\ gpc' = 0
                    /\ last_call' = NoCall
                    /\ outcome' = NoOutcome
                    /\ response' = ResponseNone
                    /\ registers' = EmptyMap
                    /\ persistent_storage' = EmptyMap
       /\ (gpc' # gpc /\ gpc' # 0) => pc = "guest"
       /\ (outcome' # outcome /\ outcome'.kind = "value")
            => pc = "guest" /\ pc' = "returned" /\ outcome' = SwapResult(response)]_vars

\* A module with an unresolvable import and no swap export was rejected at
\* instantiation.
C24_Witness ==
    /\ pc = "rejected"
    /\ outcome = Failed("Failed to instantiate module", <<>>)
    /\ \E d \in DOMAIN codes : codes[d] = UnknownImportNoSwap
    /\ \A d \in DOMAIN codes : codes[d] \in {UnknownImportNoSwap, NotWasm}

\* A module went through every step and its response was read.
C24_WitnessRead ==
    /\ pc = "returned"
    /\ outcome = Returned("42")
    /\ gpc = 1

(***************************************************************************)
(* Widths of the pricing arithmetic (checked under SpecPrice).             *)
(***************************************************************************)
\* C25: for all 128-bit balances and amounts no intermediate value of the
\* ExactIn or ExactOut computation exceeds the 256-bit range (the only
\* arithmetic panic besides the cast is the subtraction or division of an
\* ExactOut that asks for balance_out or more); the ExactIn result always
\* fits in 128 bits; an ExactOut whose amount_in does not fit in 128 bits
\* ends in a panic and never returns an amount_in truncated modulo 2^128.
C25_WidthsAreSafe ==
    (OnValidPool /\ preq.pool_id # "1" /\ Amount > 0) =>
        /\ presp = GuestPanic(PanicText(PanicOverflow)) => IsExactOut /\ Amount > BalanceOut
        /\ presp = GuestPanic(PanicText(PanicDivZero)) => IsExactOut /\ Amount = BalanceOut
        /\ IsExactIn => presp = ResponseOk(Amount, FloorOut) /\ FloorOut <= U128_MAX
        /\ (IsExactOut /\ Amount < BalanceOut) =>
              /\ BalanceIn * Amount <= U256_MAX
              /\ FloorIn + 1 <= U256_MAX
              /\ IF FloorIn + 1 > U128_MAX
                 THEN presp = GuestPanic(PanicText(PanicCast))
                 ELSE presp = ResponseOk(FloorIn + 1, Amount)

\* An ExactOut whose amount_in needs more than 128 bits panicked on the
\* cast.
C25_Witness ==
    /\ OnValidPool /\ preq.pool_id # "1" /\ IsExactOut
    /\ 0 < Amount /\ Amount < BalanceOut
    /\ FloorIn + 1 > U128_MAX
    /\ presp = GuestPanic(PanicText(PanicCast))

\* An ExactIn of u128::MAX on balances of u128::MAX returned a result.
C25_WitnessLargest ==
    /\ OnValidPool /\ preq.pool_id # "1" /\ IsExactIn
    /\ Amount = U128_MAX /\ BalanceIn = U128_MAX /\ BalanceOut = U128_MAX
    /\ presp.kind = "Ok"

(***************************************************************************)
(* The response slot over several captures (checked under Spec).           *)
(***************************************************************************)
CapturingCalls == {"value_return", "panic", "panic_utf8"}

\* C26: when the guest makes several response-capturing host calls
\* (value_return, panic, panic_utf8) in one invocation, the response slot
\* holds the response of the most recent one: each such call that returns
\* to the guest replaces whatever the slot held, no other host call touches
\* the slot, and when the export returns the outer result is derived from
\* the slot as the last capture left it.
C26_LastResponseWins ==
    [][/\ (IsHostCallStep /\ pc' = "guest") =>
            /\ last_call'.fn = "value_return"
                 => response' = ParseSwapResponse(last_call'.bytes)
            /\ last_call'.fn = "panic" => response' = ResponseError(Str("panicked"))
            /\ last_call'.fn = "panic_utf8" => response' = ResponseError(last_call'.bytes)
            /\ last_call'.fn \notin CapturingCalls => response' = response
       /\ (pc = "guest" /\ pc' = "returned") =>
            /\ response' = response
            /\ last_call.fn \in CapturingCalls =>
                 outcome' = SwapResult(IF last_call.fn = "value_return"
                                       THEN ParseSwapResponse(last_call.bytes)
                                       ELSE IF last_call.fn = "panic"
                                       THEN ResponseError(Str("panicked"))
                                       ELSE ResponseError(last_call.bytes))
            /\ outcome' = SwapResult(response)]_vars

\* The second call of an invocation was a panic, the slot holds its
\* response and the call failed with it.
C26_Witness ==
    /\ pc = "returned"
    /\ gpc = 2
    /\ last_call.fn = "panic"
    /\ response = ResponseError(Str("panicked"))
    /\ outcome = Failed("Error returned from wasm", Str("panicked"))

\* The second call of an invocation was a value_return and its amount is
\* the result.
C26_WitnessValue ==
    /\ pc = "returned"
    /\ gpc = 2
    /\ last_call.fn = "value_return"
    /\ outcome = Returned("42")

\* C27: swap loads and runs no guest code unless exactly one yoctoNEAR is
\* attached and a code blob is stored under the given DexId.  With any other
\* deposit, or with no code under that (deployer, id) key, the call fails
\* with that error, before the module is parsed, whatever is stored, and no
\* host function is invoked; a guest that runs is the code stored under the
\* given key.
C27_NoCodeRunsUnlessPaidAndStored ==
    [][\A a \in Accounts, d \in DexIds, y \in Deposits :
          SwapStart(a, d, y) =>
             /\ y # 1 =>
                  /\ RejectedWith("Requires attached deposit of exactly 1 yoctoNEAR")
                  /\ running' = NotWasm
             /\ (y = 1 /\ d \notin DOMAIN codes) =>
                  /\ RejectedWith("Dex code not found")
                  /\ running' = NotWasm
             /\ pc' = "guest" => y = 1 /\ d \in DOMAIN codes /\ running' = codes[d]]_vars

\* A swap without the deposit was turned away although every stored blob
\* would have failed to parse.
C27_Witness ==
    /\ pc = "rejected"
    /\ outcome = Failed("Requires attached deposit of exactly 1 yoctoNEAR", <<>>)
    /\ DOMAIN codes = DexIds
    /\ \A d \in DOMAIN codes : codes[d] = NotWasm
    /\ gpc = 0
    /\ last_call = NoCall

\* A swap on a key with no code was turned away while the other key holds a
\* runnable module.
C27_WitnessNoCode ==
    /\ pc = "rejected"
    /\ outcome = Failed("Dex code not found", <<>>)
    /\ \E d \in DOMAIN codes : codes[d] = FreeGuest
    /\ DOMAIN codes # DexIds

====
